---------------------------- MODULE Spec2Model ----------------------------
(***************************************************************************)
(* Model of generate_gallery.py: the sequential renamer of gallery/full_pc, *)
(* the placeholder padder, the resizer and the atlas paging of main().      *)
(*                                                                          *)
(* File names are sequences of character codes (ASCII), so that sorting,    *)
(* lower-casing and formatting are computed as Python computes them.        *)
(* A directory is a function from the names of its entries to the images    *)
(* stored under them.  The script runs on any platform pathlib supports;    *)
(* os_name selects between the two behaviours of pathlib and of the file    *)
(* system: "posix" (case-sensitive names, rename replaces its target) and   *)
(* "nt" (case-insensitive names, rename onto another file raises).          *)
(***************************************************************************)
EXTENDS Integers, Sequences, FiniteSets, TLC

VARIABLES
    os_name,        \* "posix" or "nt"
    grid,           \* <<cols, rows>> parsed from --grid
    full_pc,        \* gallery/full_pc: name -> image
    full_mobile,    \* gallery/full_mobile: name -> image
    atlases,        \* gallery/thumbs_page_NNNN.png: name -> page
    pc,             \* position of the running script
    files,          \* rename_full_pc_sequential: files
    sorted_temps,   \* rename_full_pc_sequential: sorted(temp_paths), the list of the second loop
    i,              \* loop counter of the running rename loop (next index, 1-based)
    temp_paths,     \* rename_full_pc_sequential: temp_paths
    final_paths,    \* rename_full_pc_sequential: final_paths / main: renamed
    thumbs_cells,   \* main: thumbs_cells
    log,            \* the status lines printed, by tag
    outcomes,       \* how each earlier run of the script ended
    initial,        \* full_pc as it was before the first run
    before,         \* full_pc, full_mobile and atlases as the previous run left them
    call            \* a single call of one function: its arguments and its result

vars == <<os_name, grid, full_pc, full_mobile, atlases, pc, files, sorted_temps, i, temp_paths,
          final_paths, thumbs_cells, log, outcomes, initial, before, call>>

--------------------------------------------------------------------------
(* Bounds of the model *)

MaxFiles == 3        \* files of the small initial directories
MaxBulk == 210       \* files of the largest initial directory
MaxRuns == 2         \* runs of the script in one behaviour
MaxPad == 4          \* indices of the directories handed to pad_with_placeholders
MaxSide == 12        \* width and height of the images handed to resize_with_aspect
MaxBox == 16         \* width and height of the bounding boxes
MaxCounter == 12     \* the small loop counters of the sampled temporary names

(* Program constants *)

MAX_ITEMS == 208
MAX_ATLAS_PAGES == 13
DEFAULT_CELL_W == 256
DEFAULT_CELL_H == 144
DEFAULT_MOBILE_MAX == 1024
UNBOUNDED == 100000000
PLACEHOLDER_SIZE == <<2048, 1152>>
PLACEHOLDER_COLOR == <<128, 128, 128>>
TMP_DIGITS == 6
DIGITS == 3

--------------------------------------------------------------------------
(* Strings as sequences of character codes *)

Max(a, b) == IF a >= b THEN a ELSE b
Min(a, b) == IF a <= b THEN a ELSE b

DotPng == <<46, 112, 110, 103>>                      \* ".png"
TmpPrefix == <<95, 95, 116, 109, 112, 95, 114, 101, 110, 97, 109, 105, 110, 103, 95>>
                                                     \* "__tmp_renaming_"

\* str.lower() on one ASCII character
LowerChar(c) == IF c >= 65 /\ c <= 90 THEN c + 32 ELSE c

\* str.lower()
Lower(s) == [k \in 1..Len(s) |-> LowerChar(s[k])]

\* the decimal digits of a natural number
RECURSIVE DecDigits(_)
DecDigits(n) == IF n < 10 THEN <<48 + n>> ELSE Append(DecDigits(n \div 10), 48 + (n % 10))

\* format(n, "0<width>d"): zero-padded to at least width characters
ZeroPad(n, width) ==
    LET d == DecDigits(n)
    IN  IF Len(d) >= width THEN d ELSE [k \in 1..(width - Len(d)) |-> 48] \o d

\* f"__tmp_renaming_{i:06d}.png"
TmpName(n) == TmpPrefix \o ZeroPad(n, TMP_DIGITS) \o DotPng

\* a final name without its zero padding
FinalNameUnpadded(n, digits) == DecDigits(n) \o DotPng

\* f"{i:0{digits}d}.png"
FinalName(n, digits) == ZeroPad(n, digits) \o DotPng

\* Path.stem of a name with a four-character suffix
Stem(name) == SubSeq(name, 1, Len(name) - 4)

\* s < t for two str, by code point: smaller at the first difference, or a
\* proper prefix
StrLess(s, t) ==
    LET n == Min(Len(s), Len(t))
    IN  \/ \E k \in 1..n : s[k] < t[k] /\ \A j \in 1..(k - 1) : s[j] = t[j]
        \/ Len(s) < Len(t) /\ \A j \in 1..n : s[j] = t[j]

\* what pathlib compares and the file system matches names by
CaseKey(os, name) == IF os = "nt" THEN Lower(name) ELSE name

\* Path.__lt__ for two paths of one directory
PathLess(os, a, b) == StrLess(CaseKey(os, a), CaseKey(os, b))

\* glob("*.png") on one name
MatchesPng(os, name) ==
    /\ Len(name) >= 4
    /\ SubSeq(CaseKey(os, name), Len(name) - 3, Len(name)) = DotPng

--------------------------------------------------------------------------
(* sorted() *)

\* the sequence whose k-th element is v for the pair <<k, v>> of P
SeqOfPairs(P) == [k \in 1..Cardinality(P) |-> (CHOOSE p \in P : p[1] = k)[2]]

\* sorted(S) for a collection S of paths of one directory, no two comparing
\* equal: each path stands after the paths that are less than it
Sorted(os, S) ==
    LET keyed == {<<CaseKey(os, x), x>> : x \in S}
    IN  SeqOfPairs({<<Cardinality({q \in keyed : StrLess(q[1], p[1])}) + 1, p[2]>> :
                        p \in keyed})

\* the elements of a list
Range(s) == {s[k] : k \in 1..Len(s)}

--------------------------------------------------------------------------
(* The file system: a directory maps the key of each entry (its name as the  *)
(* file system matches names: lower-cased on "nt") to the entry's name as   *)
(* spelled and the image stored in the file.                                *)

\* os.listdir(): the names of the entries
Names(dir) == {dir[k].name : k \in DOMAIN dir}

\* Path.exists()
Exists(os, dir, name) == CaseKey(os, name) \in DOMAIN dir

\* Path.unlink() of an existing file
Unlink(os, dir, name) == [k \in DOMAIN dir \ {CaseKey(os, name)} |-> dir[k]]

\* the exception Path.rename(src -> dst) raises, or "none"
RenameError(os, dir, src, dst) ==
    IF ~Exists(os, dir, src) THEN "FileNotFoundError"
    ELSE IF os = "nt" /\ Exists(os, dir, dst) /\ CaseKey(os, dst) # CaseKey(os, src)
         THEN "FileExistsError"
         ELSE "none"

\* the directory after a Path.rename(src -> dst) that raises nothing:
\* the target entry, if any, is replaced
Rename(os, dir, src, dst) ==
    LET ks == CaseKey(os, src)
        kd == CaseKey(os, dst)
    IN  [k \in (DOMAIN dir \ {ks}) \cup {kd} |->
            IF k = kd THEN [name |-> dst, image |-> dir[ks].image] ELSE dir[k]]

\* Image.save(path): an existing file keeps the spelling of its name
Save(os, dir, name, im) ==
    LET kn == CaseKey(os, name)
    IN  [k \in DOMAIN dir \cup {kn} |->
            IF k # kn THEN dir[k]
            ELSE [name |-> IF kn \in DOMAIN dir THEN dir[kn].name ELSE name, image |-> im]]

\* the function that maps x to y for each pair <<x, y>> of P
MapOfPairs(P) == [x \in {p[1] : p \in P} |-> (CHOOSE p \in P : p[1] = x)[2]]

\* dir with the entries of new written over it
Overlay(dir, new) ==
    [k \in DOMAIN dir \cup DOMAIN new |-> IF k \in DOMAIN new THEN new[k] ELSE dir[k]]

\* Image.open(path): the image stored under name
Open(os, dir, name) == dir[CaseKey(os, name)].image

--------------------------------------------------------------------------
(* list_full_pc_images *)

\* lines 47-54: the loop over the sorted names keeps a name unless an earlier
\* one has the same lower-cased name
Unique(s) ==
    LET low == {<<k, Lower(s[k])>> : k \in 1..Len(s)}
        kept == {p[1] : p \in {p \in low : ~\E q \in low : q[2] = p[2] /\ q[1] < p[1]}}
    IN  SeqOfPairs({<<Cardinality({j \in kept : j <= k}), s[k]>> : k \in kept})

\* lines 45-55
list_full_pc_images(os, dir) ==
    Unique(Sorted(os, {n \in Names(dir) : MatchesPng(os, n)}))

--------------------------------------------------------------------------
(* rename_full_pc_sequential, one rename at a time *)

\* line 63: files = list_full_pc_images(full_pc_dir); an empty list returns []
StartRename ==
    /\ pc = "start"
    /\ files' = list_full_pc_images(os_name, full_pc)
    /\ sorted_temps' = <<>>
    /\ i' = 1
    /\ temp_paths' = <<>>
    /\ final_paths' = <<>>
    /\ pc' = IF files' = <<>> THEN "renamed" ELSE "phase1"
    /\ UNCHANGED <<os_name, grid, full_pc, full_mobile, atlases, thumbs_cells, log,
                   outcomes, initial, before, call>>

\* lines 69-72: one pass of the phase-1 loop
Phase1Step ==
    /\ pc = "phase1"
    /\ i <= Len(files)
    /\ RenameError(os_name, full_pc, files[i], TmpName(i)) = "none"
    /\ full_pc' = Rename(os_name, full_pc, files[i], TmpName(i))
    /\ temp_paths' = Append(temp_paths, TmpName(i))
    /\ i' = i + 1
    /\ UNCHANGED <<os_name, grid, full_mobile, atlases, pc, files, sorted_temps, final_paths,
                   thumbs_cells, log, outcomes, initial, before, call>>

\* line 71 raises: the exception ends the script
Phase1Raise ==
    /\ pc = "phase1"
    /\ i <= Len(files)
    /\ RenameError(os_name, full_pc, files[i], TmpName(i)) # "none"
    /\ pc' = "failed"
    /\ UNCHANGED <<os_name, grid, full_pc, full_mobile, atlases, files, sorted_temps, i, temp_paths,
                   final_paths, thumbs_cells, log, outcomes, initial, before, call>>

\* line 76: the phase-2 loop starts on sorted(temp_paths)
SortTemps ==
    /\ pc = "phase1"
    /\ i > Len(files)
    /\ sorted_temps' = Sorted(os_name, Range(temp_paths))
    /\ i' = 1
    /\ pc' = "phase2"
    /\ UNCHANGED <<os_name, grid, full_pc, full_mobile, atlases, files, temp_paths, final_paths,
                   thumbs_cells, log, outcomes, initial, before, call>>

\* lines 77-79: the target of pass i, removed first if it exists
Cleared(os, dir, dst) == IF Exists(os, dir, dst) THEN Unlink(os, dir, dst) ELSE dir

\* lines 77-81: one pass of the phase-2 loop
Phase2Step ==
    /\ pc = "phase2"
    /\ i <= Len(sorted_temps)
    /\ LET dst == FinalName(i, DIGITS)
           dir == Cleared(os_name, full_pc, dst)
       IN  /\ RenameError(os_name, dir, sorted_temps[i], dst) = "none"
           /\ full_pc' = Rename(os_name, dir, sorted_temps[i], dst)
           /\ final_paths' = Append(final_paths, dst)
    /\ i' = i + 1
    /\ UNCHANGED <<os_name, grid, full_mobile, atlases, pc, files, sorted_temps, temp_paths,
                   thumbs_cells, log, outcomes, initial, before, call>>

\* line 80 raises (after the unlink of line 79): the exception ends the script
Phase2Raise ==
    /\ pc = "phase2"
    /\ i <= Len(sorted_temps)
    /\ LET dst == FinalName(i, DIGITS)
           dir == Cleared(os_name, full_pc, dst)
       IN  /\ RenameError(os_name, dir, sorted_temps[i], dst) # "none"
           /\ full_pc' = dir
    /\ pc' = "failed"
    /\ UNCHANGED <<os_name, grid, full_mobile, atlases, files, sorted_temps, i, temp_paths,
                   final_paths, thumbs_cells, log, outcomes, initial, before, call>>

\* line 83: return final_paths
ReturnRenamed ==
    /\ pc = "phase2"
    /\ i > Len(sorted_temps)
    /\ pc' = "renamed"
    /\ UNCHANGED <<os_name, grid, full_pc, full_mobile, atlases, files, sorted_temps, i, temp_paths,
                   final_paths, thumbs_cells, log, outcomes, initial, before, call>>

--------------------------------------------------------------------------
(* pad_with_placeholders *)

\* Image.new("RGB", PLACEHOLDER_SIZE, PLACEHOLDER_COLOR)
Placeholder == [size |-> PLACEHOLDER_SIZE, pixels |-> PLACEHOLDER_COLOR]

\* a loop that starts one index early
PadFromCurrent(current_count) == current_count

\* the first index the loop of line 90 visits
PadFrom(current_count) == current_count + 1

\* lines 90-96: for every index of range(current_count + 1, target + 1), the
\* file of that name is removed if it exists and the placeholder saved there
pad_with_placeholders(os, dir, current_count, target, digits) ==
    LET names == {FinalName(n, digits) : n \in PadFrom(current_count)..target}
    IN  Overlay(dir, MapOfPairs({<<CaseKey(os, n), [name |-> n, image |-> Placeholder]>> :
                                    n \in names}))

--------------------------------------------------------------------------
(* resize_with_aspect: Python floats (IEEE 754 binary64) on integers *)

RECURSIVE GCD(_, _)
GCD(a, b) == IF b = 0 THEN a ELSE GCD(b, a % b)

RECURSIVE IsPow2(_)
IsPow2(n) == n = 1 \/ (n % 2 = 0 /\ IsPow2(n \div 2))

\* floor(log2(a / b)) for positive a, b
RECURSIVE Log2Up(_, _, _)
Log2Up(a, b, e) == IF 2 * b <= a THEN Log2Up(a, 2 * b, e + 1) ELSE e
RECURSIVE Log2Down(_, _, _)
Log2Down(a, b, e) == IF a < b THEN Log2Down(2 * a, b, e - 1) ELSE e
FloorLog2(a, b) == IF a >= b THEN Log2Up(a, b, 0) ELSE Log2Down(a, b, 0)

\* (r * 2^s) mod d
RECURSIVE ShiftMod(_, _, _)
ShiftMod(r, s, d) ==
    IF s = 0 THEN r
    ELSE IF s >= 8 THEN ShiftMod((256 * r) % d, s - 8, d)
    ELSE ShiftMod((2 * r) % d, s - 1, d)

\* a / b < c / e as floats, for positive integers: the quotients are correctly
\* rounded, so they compare as the fractions do
FloatLess(a, b, c, e) ==
    IF a \div b # c \div e THEN a \div b < c \div e
    ELSE (a % b) * e < (c % e) * b

\* line 100: scale = min(max_w / w, max_h / h), as the division <<m, d>> that
\* gives it (min returns its first argument unless the second is smaller)
Scale(w, h, max_w, max_h) ==
    IF FloatLess(max_h, h, max_w, w) THEN <<max_h, h>> ELSE <<max_w, w>>

\* Whether the float product x * (m / d) falls below the integer n = x*m/d it
\* equals exactly: the quotient m / d was rounded down to 53 bits (remainder r
\* of the mantissa division below half of D), and the product lies more than
\* half a unit in the last place under n.
ProductBelow(x, M, D, n) ==
    LET E == FloorLog2(M, D)
        r == ShiftMod(M % D, 52 - E, D)
        k == FloorLog2(n, 1)
        ex == k - E - 1 - (IF IsPow2(n) THEN 1 ELSE 0)
    IN  /\ 2 * r < D
        /\ IF ex >= 0 THEN x * r > D * (2 ^ ex) ELSE x * r * (2 ^ (0 - ex)) > D

\* round(x * scale) instead of int(x * scale)
IntOfProductRounded(x, scale) == (2 * x * scale[1] + scale[2]) \div (2 * scale[2])

\* line 101: int(x * scale), scale the float m / d
IntOfProduct(x, scale) ==
    LET g == GCD(scale[1], scale[2])
        M == scale[1] \div g
        D == scale[2] \div g
        n == (x * M) \div D
    IN  IF (x * M) % D # 0 \/ IsPow2(D) THEN n
        ELSE IF ProductBelow(x, M, D, n) THEN n - 1 ELSE n

\* lines 99-102: the size of the resized image
ResizedSize(size, max_w, max_h) ==
    LET scale == Scale(size[1], size[2], max_w, max_h)
    IN  <<Max(1, IntOfProduct(size[1], scale)), Max(1, IntOfProduct(size[2], scale))>>

resize_with_aspect(im, max_w, max_h) ==
    [size |-> ResizedSize(im.size, max_w, max_h), pixels |-> im.pixels]

\* lines 104-110
make_letterboxed_thumb(src, cell_w, cell_h) ==
    LET fit == resize_with_aspect(src, cell_w, cell_h)
    IN  [size |-> <<cell_w, cell_h>>,
         fit |-> fit.size,
         at |-> <<(cell_w - fit.size[1]) \div 2, (cell_h - fit.size[2]) \div 2>>,
         pixels |-> fit.pixels]

\* lines 170-177: the mobile copy, downscaled by its long edge, never enlarged
MobileCopy(im, mobile_max) ==
    IF Max(im.size[1], im.size[2]) > mobile_max
    THEN IF im.size[1] >= im.size[2]
         THEN resize_with_aspect(im, mobile_max, UNBOUNDED)
         ELSE resize_with_aspect(im, UNBOUNDED, mobile_max)
    ELSE im

--------------------------------------------------------------------------
(* main, after the rename *)

\* line 156: targets
Target(k) == FinalName(k, 3)

\* every renamed file as a target, instead of the first MAX_ITEMS
TargetIndicesAll == 1..Max(MAX_ITEMS, Len(final_paths))

\* line 156: range(1, MAX_ITEMS + 1)
TargetIndices == 1..MAX_ITEMS

\* lines 146-148: fewer than MAX_ITEMS images: pad
PadPlaceholders ==
    /\ pc = "renamed"
    /\ Len(final_paths) < MAX_ITEMS
    /\ full_pc' = pad_with_placeholders(os_name, full_pc, Len(final_paths), MAX_ITEMS, DIGITS)
    /\ log' = Append(log, "INFO")
    /\ pc' = "padded"
    /\ UNCHANGED <<os_name, grid, full_mobile, atlases, files, sorted_temps, i, temp_paths, final_paths,
                   thumbs_cells, outcomes, initial, before, call>>

\* lines 150-151: more than MAX_ITEMS images: warn
WarnExcess ==
    /\ pc = "renamed"
    /\ Len(final_paths) > MAX_ITEMS
    /\ log' = Append(log, "WARN")
    /\ pc' = "padded"
    /\ UNCHANGED <<os_name, grid, full_pc, full_mobile, atlases, files, sorted_temps, i, temp_paths,
                   final_paths, thumbs_cells, outcomes, initial, before, call>>

\* lines 152-153: exactly MAX_ITEMS images
ExactCount ==
    /\ pc = "renamed"
    /\ Len(final_paths) = MAX_ITEMS
    /\ log' = Append(log, "OK")
    /\ pc' = "padded"
    /\ UNCHANGED <<os_name, grid, full_pc, full_mobile, atlases, files, sorted_temps, i, temp_paths,
                   final_paths, thumbs_cells, outcomes, initial, before, call>>

\* lines 160-184: the loop over the targets (every target exists: the rename
\* and the padder have left 001.png .. 208.png); each pass saves one mobile
\* copy and appends one cell
ProcessTargets ==
    /\ pc = "padded"
    /\ \A k \in TargetIndices : Exists(os_name, full_pc, Target(k))
    /\ LET im(k) == Open(os_name, full_pc, Target(k))
           mobile_path(k) == Stem(Target(k)) \o DotPng
           spelled(n) == IF Exists(os_name, full_mobile, n)
                         THEN full_mobile[CaseKey(os_name, n)].name ELSE n
       IN  /\ full_mobile' =
                 Overlay(full_mobile,
                         MapOfPairs({<<CaseKey(os_name, mobile_path(k)),
                                       [name |-> spelled(mobile_path(k)),
                                        image |-> MobileCopy(im(k), DEFAULT_MOBILE_MAX)]>> :
                                        k \in TargetIndices}))
           /\ thumbs_cells' =
                 [k \in 1..Cardinality(TargetIndices) |->
                     make_letterboxed_thumb(im(k), DEFAULT_CELL_W, DEFAULT_CELL_H)]
    /\ pc' = "processed"
    /\ UNCHANGED <<os_name, grid, full_pc, atlases, files, sorted_temps, i, temp_paths, final_paths,
                   log, outcomes, initial, before, call>>

--------------------------------------------------------------------------
(* build_atlas and the paging of main *)

ThumbsPrefix == <<116, 104, 117, 109, 98, 115, 95, 112, 97, 103, 101, 95>>  \* "thumbs_page_"

\* f"thumbs_page_{(page + 1):04d}.png"
AtlasName(page) == ThumbsPrefix \o ZeroPad(page + 1, 4) \o DotPng

\* lines 117-125: the cells pasted, by <<row, column>>; the loop breaks at the
\* first cell whose row is outside the grid
build_atlas(thumbs, cols, rows, cell_w, cell_h) ==
    LET pasted == {k \in 0..(Len(thumbs) - 1) : \A j \in 0..k : j \div cols < rows}
    IN  [size |-> <<cols * cell_w, rows * cell_h>>,
         cells |-> [rc \in {<<k \div cols, k % cols>> : k \in pasted} |->
                        thumbs[rc[1] * cols + rc[2] + 1]]]

\* line 187
PerPage(cols, rows) == cols * rows

\* line 188
MaxCells(thumbs) == Min(Len(thumbs), MAX_ITEMS)

\* a page count that drops the partly filled last page
MaxPagesFloor(max_cells, per_page) == Min(MAX_ATLAS_PAGES, max_cells \div per_page)

\* line 189
MaxPages(max_cells, per_page) ==
    Min(MAX_ATLAS_PAGES, (max_cells + per_page - 1) \div per_page)

\* lines 193-195: page_cells of one page
PageCells(thumbs, page, per_page, max_cells) ==
    LET start == page * per_page
        end == Min(start + per_page, max_cells)
    IN  SubSeq(thumbs, start + 1, end)

\* lines 192-202: the loop over the pages, from page on; it breaks at an empty page
RECURSIVE AtlasLoop(_, _, _, _, _, _, _)
AtlasLoop(os, dir, thumbs, cols, rows, page, max_pages) ==
    IF page >= max_pages THEN dir
    ELSE LET cells == PageCells(thumbs, page, PerPage(cols, rows), MaxCells(thumbs))
         IN  IF cells = <<>> THEN dir
             ELSE AtlasLoop(os,
                            Save(os, dir, AtlasName(page),
                                 build_atlas(cells, cols, rows, DEFAULT_CELL_W, DEFAULT_CELL_H)),
                            thumbs, cols, rows, page + 1, max_pages)

\* lines 186-207
BuildAtlases ==
    /\ pc = "processed"
    /\ atlases' = AtlasLoop(os_name, atlases, thumbs_cells, grid[1], grid[2], 0,
                            MaxPages(MaxCells(thumbs_cells), PerPage(grid[1], grid[2])))
    /\ log' = log \o <<"OK", "OK", "OK", "NOTE">>
    /\ pc' = "done"
    /\ UNCHANGED <<os_name, grid, full_pc, full_mobile, files, sorted_temps, i, temp_paths, final_paths,
                   thumbs_cells, outcomes, initial, before, call>>

--------------------------------------------------------------------------
(* The environment: the process is killed during the rename; the script is run again *)

\* the process is killed between two renames (a run that no run follows is
\* left alone: nothing would observe what it leaves)
Interrupt ==
    /\ pc \in {"phase1", "phase2"}
    /\ Len(outcomes) + 1 < MaxRuns
    /\ pc' = "killed"
    /\ UNCHANGED <<os_name, grid, full_pc, full_mobile, atlases, files, sorted_temps, i, temp_paths,
                   final_paths, thumbs_cells, log, outcomes, initial, before, call>>

Rerun ==
    /\ pc \in {"done", "failed", "killed"}
    /\ Len(outcomes) + 1 < MaxRuns
    /\ outcomes' = Append(outcomes, pc)
    /\ before' = [full_pc |-> full_pc, full_mobile |-> full_mobile, atlases |-> atlases]
    /\ pc' = "start"
    /\ files' = <<>>
    /\ sorted_temps' = <<>>
    /\ i' = 1
    /\ temp_paths' = <<>>
    /\ final_paths' = <<>>
    /\ thumbs_cells' = <<>>
    /\ log' = <<>>
    /\ UNCHANGED <<os_name, grid, full_pc, full_mobile, atlases, initial, call>>

--------------------------------------------------------------------------
(* Initial states *)

\* the images of the model: each file holds its own pixels, named after the
\* file's first name, in one of three sizes
SampleSizes == << <<4000, 3000>>, <<1080, 1920>>, <<11, 11>> >>
ImageOf(name) == [size |-> SampleSizes[(Len(name) % 3) + 1], pixels |-> name]

\* "0.png", "001.png", "A.png", "a.png", "__tmp_renaming_000001.png", "X.PNG"
SmallNames ==
    { <<48>> \o DotPng,
      <<48, 48, 49>> \o DotPng,
      <<65>> \o DotPng,
      <<97>> \o DotPng,
      TmpName(1),
      <<88, 46, 80, 78, 71>> }

\* "img_NNN.png"
BulkName(k) == <<105, 109, 103, 95>> \o ZeroPad(k, 3) \o DotPng

\* names a directory of the platform can hold together
Coexist(os, S) == \A a, b \in S : CaseKey(os, a) = CaseKey(os, b) => a = b

Directory(os, S) == [k \in {CaseKey(os, n) : n \in S} |->
    LET n == CHOOSE x \in S : CaseKey(os, x) = k IN [name |-> n, image |-> ImageOf(n)]]

NoCall == [fn |-> "none", args |-> <<>>, result |-> <<>>, done |-> FALSE]

\* lines 19-30, 128-137: the constants, the arguments and the directories
Start(os, g, dir) ==
    /\ os_name = os
    /\ grid = g
    /\ full_pc = dir
    /\ initial = dir
    /\ full_mobile = <<>>
    /\ atlases = <<>>
    /\ pc = "start"
    /\ files = <<>>
    /\ sorted_temps = <<>>
    /\ i = 1
    /\ temp_paths = <<>>
    /\ final_paths = <<>>
    /\ thumbs_cells = <<>>
    /\ log = <<>>
    /\ outcomes = <<>>
    /\ before = [full_pc |-> <<>>, full_mobile |-> <<>>, atlases |-> <<>>]
    /\ call = NoCall

\* --grid: the default 4x4 and grids with pages cut by the page limit (1x1),
\* with a partly filled last page (5x5, 3x7, 15x14) and with one full page (16x13)
Grids == {<<4, 4>>, <<1, 1>>, <<5, 5>>, <<3, 7>>, <<16, 13>>, <<15, 14>>}

SmallDirs(os) ==
    {S \in SUBSET SmallNames : Cardinality(S) <= MaxFiles /\ Coexist(os, S)}

\* directories of MAX_ITEMS files and more
BulkDirs == {{BulkName(k) : k \in 1..n} : n \in MAX_ITEMS..MaxBulk}

InitSmall ==
    \E os \in {"posix", "nt"}, g \in Grids :
        \E S \in SmallDirs(os) : Start(os, g, Directory(os, S))

InitBulk ==
    \E os \in {"posix", "nt"}, S \in BulkDirs : Start(os, <<4, 4>>, Directory(os, S))

Init == InitSmall \/ InitBulk

\* one run of the script
Run ==
    \/ StartRename
    \/ Phase1Step
    \/ Phase1Raise
    \/ SortTemps
    \/ Phase2Step
    \/ Phase2Raise
    \/ ReturnRenamed
    \/ PadPlaceholders
    \/ WarnExcess
    \/ ExactCount
    \/ ProcessTargets
    \/ BuildAtlases

Next == Run

Spec == Init /\ [][Next]_vars

\* runs that may be killed during the rename, and runs after a run
NextRecover == Run \/ Interrupt \/ Rerun

\* the directories of fewer than MaxFiles files
InitRecover ==
    \E os \in {"posix", "nt"} :
        \E S \in {D \in SmallDirs(os) : Cardinality(D) < MaxFiles} :
            Start(os, <<4, 4>>, Directory(os, S))

SpecRecover == InitRecover /\ [][NextRecover]_vars

--------------------------------------------------------------------------
(* Single calls of one function, on arguments drawn from bounded sets *)

\* the script is not running
Idle ==
    /\ os_name = "posix"
    /\ grid = <<4, 4>>
    /\ full_pc = <<>>
    /\ initial = <<>>
    /\ full_mobile = <<>>
    /\ atlases = <<>>
    /\ pc = "idle"
    /\ files = <<>>
    /\ sorted_temps = <<>>
    /\ i = 1
    /\ temp_paths = <<>>
    /\ final_paths = <<>>
    /\ thumbs_cells = <<>>
    /\ log = <<>>
    /\ outcomes = <<>>
    /\ before = [full_pc |-> <<>>, full_mobile |-> <<>>, atlases |-> <<>>]

Return(result) ==
    /\ call' = [call EXCEPT !.result = result, !.done = TRUE]
    /\ UNCHANGED <<os_name, grid, full_pc, full_mobile, atlases, pc, files, sorted_temps, i,
                   temp_paths, final_paths, thumbs_cells, log, outcomes, initial, before>>

\* pad_with_placeholders(full_pc_dir, current_count, target, digits) on a
\* directory that holds any of the files 1.png .. or 001.png ..
InitPad ==
    /\ Idle
    /\ \E os \in {"posix", "nt"}, digits \in {1, 3}, S \in SUBSET (1..MaxPad),
          current \in 0..MaxPad, target \in 0..MaxPad :
          call = [fn |-> "pad_with_placeholders",
                  args |-> <<os, Directory(os, {FinalName(n, digits) : n \in S}),
                             current, target, digits>>,
                  result |-> <<>>, done |-> FALSE]

CallPad ==
    /\ call.fn = "pad_with_placeholders"
    /\ ~call.done
    /\ Return(pad_with_placeholders(call.args[1], call.args[2], call.args[3],
                                    call.args[4], call.args[5]))

SpecPad == InitPad /\ [][CallPad]_vars

\* resize_with_aspect(im, max_w, max_h) on an image of size <<w, h>>
InitResize ==
    /\ Idle
    /\ \E w \in 1..MaxSide, h \in 1..MaxSide, max_w \in 1..MaxBox, max_h \in 1..MaxBox :
          call = [fn |-> "resize_with_aspect",
                  args |-> <<[size |-> <<w, h>>, pixels |-> <<>>], max_w, max_h>>,
                  result |-> <<>>, done |-> FALSE]

CallResize ==
    /\ call.fn = "resize_with_aspect"
    /\ ~call.done
    /\ Return(resize_with_aspect(call.args[1], call.args[2], call.args[3]).size)

SpecResize == InitResize /\ [][CallResize]_vars

\* the loop counters sampled: the first ones, and those around the first
\* counter that has more than TMP_DIGITS digits
Counters == (1..MaxCounter) \cup ((10 ^ TMP_DIGITS - 2)..(10 ^ TMP_DIGITS + 1))
               \cup {10 ^ (TMP_DIGITS - 1) + 1}

\* lines 69-76 on two of the assets: the a-th and the b-th file of the first
\* loop (a < b) are renamed to TmpName(a) and TmpName(b); sorted(temp_paths)
\* puts the two names in the order returned
InitTmp ==
    /\ Idle
    /\ \E os \in {"posix", "nt"}, a \in Counters, b \in Counters :
          /\ a < b
          /\ call = [fn |-> "sorted", args |-> <<os, a, b>>, result |-> <<>>, done |-> FALSE]

CallSorted ==
    /\ call.fn = "sorted"
    /\ ~call.done
    /\ Return(Sorted(call.args[1], {TmpName(call.args[2]), TmpName(call.args[3])}))

SpecTmp == InitTmp /\ [][CallSorted]_vars

--------------------------------------------------------------------------
(* The claims *)

\* the entries of dir that glob("*.png") lists
PngKeys(os, dir) == {k \in DOMAIN dir : MatchesPng(os, dir[k].name)}

\* the indices j of 1..n whose final name holds image im in dir
FinalsHolding(os, dir, im, n) ==
    {j \in 1..n : /\ Exists(os, dir, FinalName(j, DIGITS))
                  /\ Open(os, dir, FinalName(j, DIGITS)) = im}

\* the number a string of decimal digits denotes
RECURSIVE DecValue(_)
DecValue(s) == IF s = <<>> THEN 0 ELSE 10 * DecValue(SubSeq(s, 1, Len(s) - 1)) + (s[Len(s)] - 48)

\* name is the number n in decimal, zero-padded to three digits, and ".png"
IsPaddedName(name, n) ==
    /\ Len(name) = Max(3, Len(DecDigits(n))) + 4
    /\ SubSeq(name, Len(name) - 3, Len(name)) = DotPng
    /\ \A j \in 1..(Len(name) - 4) : name[j] >= 48 /\ name[j] <= 57
    /\ DecValue(Stem(name)) = n

\* C1: when rename_full_pc_sequential returns, every original *.png file's
\* image is at exactly one final path NNN.png, and no *.png file is left
\* under a name that is not final.
C1_RenameIsBijection ==
    pc = "renamed" =>
        LET orig == PngKeys(os_name, initial)
            n == Cardinality(orig)
        IN  /\ \A k \in orig :
                   Cardinality(FinalsHolding(os_name, full_pc, initial[k].image, n)) = 1
            /\ \A k \in PngKeys(os_name, full_pc) :
                   \E j \in 1..n : full_pc[k].name = FinalName(j, DIGITS)

C3_TmpNameIsFree ==
    (pc = "phase1" /\ i <= Len(files)) =>
        (Exists(os_name, full_pc, TmpName(i)) =>
            CaseKey(os_name, TmpName(i)) = CaseKey(os_name, files[i]))

\* C4: a second complete run after a complete run leaves full_pc, full_mobile
\* and the atlases as the first run left them.
C4_RerunIdempotent ==
    (outcomes = <<"done">> /\ pc = "done") =>
        /\ full_pc = before.full_pc
        /\ full_mobile = before.full_mobile
        /\ atlases = before.atlases

\* C5: pad_with_placeholders(dir, N, T) leaves a 2048x1152 placeholder of
\* colour (128,128,128) at every index of (N, T], whatever was there, and
\* leaves every other file as it was; for N >= T nothing changes.
C5_Padder ==
    call.done =>
        LET os == call.args[1]
            dir == call.args[2]
            N == call.args[3]
            T == call.args[4]
            digits == call.args[5]
            out == call.result
        IN  /\ \A n \in 1..(MaxPad + 1) :
                  LET name == FinalName(n, digits)
                  IN  IF N < n /\ n <= T
                      THEN /\ Exists(os, out, name)
                           /\ Open(os, out, name) =
                                 [size |-> <<2048, 1152>>, pixels |-> <<128, 128, 128>>]
                      ELSE /\ Exists(os, out, name) <=> Exists(os, dir, name)
                           /\ Exists(os, dir, name) =>
                                 out[CaseKey(os, name)] = dir[CaseKey(os, name)]
            /\ DOMAIN out \subseteq
                  DOMAIN dir \cup {CaseKey(os, FinalName(n, digits)) : n \in (N + 1)..T}
            /\ N >= T => out = dir

\* a file at an index of (N, T] is replaced and the file at index N is kept
C5_Witness ==
    /\ call.fn = "pad_with_placeholders"
    /\ call.done
    /\ call.args[3] >= 1
    /\ call.args[3] < call.args[4]
    /\ Exists(call.args[1], call.args[2], FinalName(call.args[3], call.args[5]))
    /\ Exists(call.args[1], call.args[2], FinalName(call.args[4], call.args[5]))
    /\ Open(call.args[1], call.args[2], FinalName(call.args[4], call.args[5])) # Placeholder

\* C6: with N > MAX_ITEMS renamed files the run writes one mobile copy and one
\* cell for each index of 1..MAX_ITEMS and for no other, prints the warning,
\* creates no placeholder, and leaves the files MAX_ITEMS+1..N as renamed.
C6_Oversupply ==
    (pc = "done" /\ Len(final_paths) > MAX_ITEMS) =>
        LET image(k) == initial[CaseKey(os_name, files[k])].image
        IN  /\ Names(full_mobile) = {FinalName(k, 3) : k \in 1..MAX_ITEMS}
            /\ Len(thumbs_cells) = MAX_ITEMS
            /\ \A k \in 1..MAX_ITEMS :
                  /\ Open(os_name, full_mobile, FinalName(k, 3)).pixels = image(k).pixels
                  /\ thumbs_cells[k].pixels = image(k).pixels
            /\ \E k \in 1..Len(log) : log[k] = "WARN"
            /\ \A k \in 1..Len(log) : log[k] # "INFO"
            /\ \A k \in DOMAIN full_pc : full_pc[k].image # Placeholder
            /\ \A k \in (MAX_ITEMS + 1)..Len(final_paths) :
                  /\ Exists(os_name, full_pc, FinalName(k, 3))
                  /\ Open(os_name, full_pc, FinalName(k, 3)) = image(k)
                  /\ ~Exists(os_name, full_mobile, FinalName(k, 3))

\* a run on two files more than MAX_ITEMS has ended
C6_Witness == pc = "done" /\ Len(final_paths) = MAX_ITEMS + 2

\* C7: the run writes min(MAX_ATLAS_PAGES, ceil(total / capacity)) pages; page
\* p holds the cells p*capacity .. min((p+1)*capacity, total) - 1 in row-major
\* order and nothing else; only the last page may be partly filled.
C7_AtlasPaging ==
    pc = "done" =>
        LET cols == grid[1]
            capacity == grid[1] * grid[2]
            total == Len(thumbs_cells)
            ceil == IF total % capacity = 0 THEN total \div capacity
                    ELSE total \div capacity + 1
            pages == IF ceil < 13 THEN ceil ELSE 13
        IN  /\ Names(atlases) = {AtlasName(p) : p \in 0..(pages - 1)}
            /\ Cardinality(DOMAIN atlases) = pages
            /\ \A p \in 0..(pages - 1) :
                  LET page == Open(os_name, atlases, AtlasName(p))
                      lo == p * capacity
                      hi == IF (p + 1) * capacity < total THEN (p + 1) * capacity ELSE total
                  IN  /\ DOMAIN page.cells = {<<j \div cols, j % cols>> : j \in 0..(hi - lo - 1)}
                      /\ \A j \in 0..(hi - lo - 1) :
                            page.cells[<<j \div cols, j % cols>>] = thumbs_cells[lo + j + 1]
                      /\ Cardinality(DOMAIN page.cells) <= capacity
                      /\ Cardinality(DOMAIN page.cells) < capacity => p = pages - 1

\* 208 cells on a 5x5 grid: nine pages, the last with 8 cells
C7_Witness ==
    /\ pc = "done"
    /\ grid = <<5, 5>>
    /\ Cardinality(DOMAIN atlases) = 9
    /\ Cardinality(DOMAIN Open(os_name, atlases, AtlasName(8)).cells) = 8

\* the division whose quotient is min(max_w / w, max_h / h), as fractions
ExactScale(w, h, max_w, max_h) == IF max_h * w < max_w * h THEN <<max_h, h>> ELSE <<max_w, w>>

\* r is x * m / d rounded to a nearest integer, raised to at least 1
IsNearest(r, x, m, d) ==
    LET q == (2 * x * m + d) \div (2 * d)
    IN  \/ r = Max(1, q)
        \/ (2 * x * m + d) % (2 * d) = 0 /\ r = Max(1, q - 1)

\* r is x * m / d truncated, or one less where the product is a whole number
\* and m / d is no binary fraction, raised to at least 1
IsTruncated(r, x, m, d) ==
    \/ r = Max(1, (x * m) \div d)
    \/ /\ (x * m) % d = 0
       /\ ~IsPow2(d \div GCD(m, d))
       /\ r = Max(1, (x * m) \div d - 1)

\* C8 as stated: resize_with_aspect gives w*scale and h*scale, each rounded to
\* the nearest integer and raised to at least 1.
C8_RoundedToNearest ==
    call.done =>
        LET w == call.args[1].size[1]
            h == call.args[1].size[2]
            sc == ExactScale(w, h, call.args[2], call.args[3])
        IN  /\ IsNearest(call.result[1], w, sc[1], sc[2])
            /\ IsNearest(call.result[2], h, sc[1], sc[2])

\* C8 as amended: each of w*scale and h*scale is truncated toward zero (and is
\* one less than the exact product where that is a whole number the float
\* product falls below), then raised to at least 1.
C8_Truncated ==
    call.done =>
        LET w == call.args[1].size[1]
            h == call.args[1].size[2]
            sc == ExactScale(w, h, call.args[2], call.args[3])
        IN  /\ IsTruncated(call.result[1], w, sc[1], sc[2])
            /\ IsTruncated(call.result[2], h, sc[1], sc[2])

\* a height whose exact product has a fraction of one half or more is cut down
C8_Witness ==
    /\ call.fn = "resize_with_aspect"
    /\ call.done
    /\ LET w == call.args[1].size[1]
           h == call.args[1].size[2]
           sc == ExactScale(w, h, call.args[2], call.args[3])
       IN  /\ 2 * ((h * sc[1]) % sc[2]) >= sc[2]
           /\ call.result[2] = (h * sc[1]) \div sc[2]
           /\ call.result[2] >= 1

\* C9: sorted(temp_paths) keeps the order of the first loop: of two files, the
\* one renamed earlier (the smaller counter) comes first.
C9_SortKeepsCounterOrder ==
    (call.fn = "sorted" /\ call.done) =>
        call.result = <<TmpName(call.args[2]), TmpName(call.args[3])>>

\* C10: a complete run after a run killed during the rename does not fail,
\* and ends with every image the directory held before the killed run at
\* exactly one final path.
C10_RecoveryByRerun ==
    (Len(outcomes) = 1 /\ outcomes[1] = "killed") =>
        /\ pc # "failed"
        /\ pc = "done" =>
              \A k \in PngKeys(os_name, initial) :
                  Cardinality(FinalsHolding(os_name, full_pc, initial[k].image,
                                            MAX_ITEMS + MaxFiles)) = 1

==========================================================================
